---- MODULE Spec2Model ----
(***************************************************************************)
(* Boxing game: the depth tracker (DepthSensor), the fine-grid camera tick *)
(* handler and stance classifier (CameraDetection) and the stance sink     *)
(* (BoxingGame).                                                           *)
(*                                                                         *)
(* Numbers.  Coordinates and depths are fixed-point multiples of 1/Unit,   *)
(* products and quotients are rounded toward zero (Quot).  Times are whole *)
(* milliseconds as Date.now() returns them.  punchPower is held as a       *)
(* multiple of 1/PowerDen, PowerDen = 2 * VELOCITY_THRESHOLD, so that      *)
(* min(1, |v| / (2 * threshold)) is min(PowerDen, |v|) without rounding.   *)
(* A JavaScript null is the empty tuple, a non-null value v is <<v>>.      *)
(***************************************************************************)
EXTENDS Integers, Sequences, FiniteSets, TLC

\* ---------------------------------------------------------------- bounds
Unit == 1000
StartTime == 1000
FrameGap == 33
SlowGap == 100
MaxTicks == 4
MaxGridTicks == 2
MaxLongTicks == 54
FreeTicks == 3
MaxMutTicks == 3
MaxMutations == 1
MaxObjs == 6
MaxCamTicks == 3
MaxLoops == 2
MaxDropTicks == 10
MaxShortTicks == 2
MaxResetTicks == 3
MaxNoZTicks == 3
MaxDupTicks == 2
MaxPowerTicks == 4
MaxFistTicks == 2
MaxPairTicks == 4
MaxRampTicks == 3
MaxLabelTicks == 2
MaxReenterTicks == 3
MaxStanceTicks == 2
MaxRowTicks == 2

\* ------------------------------------------------------ program constants
REFERENCE_HAND_SIZE == 150
DEPTH_SMOOTHING == 7
VELOCITY_THRESHOLD == 6
PUNCH_COOLDOWN == 80
historyMaxLength == 5
velocityHistoryMaxLength == 50
GRID_COLS == 4
GRID_ROWS == 6

PowerDen == 2 * VELOCITY_THRESHOLD

Sides == {"left", "right"}
Null == <<>>
Some(v) == <<v>>
IsNull(o) == o = <<>>
Val(o) == o[1]

\* ------------------------------------------------------------ arithmetic
Abs(a) == IF a < 0 THEN -a ELSE a
Min(a, b) == IF a < b THEN a ELSE b
Max(a, b) == IF a > b THEN a ELSE b
Quot(a, b) == IF a >= 0 THEN a \div b ELSE -((-a) \div b)

RECURSIVE SqrtIter(_, _, _)
SqrtIter(n, lo, hi) ==
    IF lo >= hi THEN lo
    ELSE LET mid == (lo + hi + 1) \div 2
         IN IF mid * mid <= n THEN SqrtIter(n, mid, hi)
            ELSE SqrtIter(n, lo, mid - 1)
Sqrt(n) == SqrtIter(n, 0, n)

\* ------------------------------------------------- the landmark source
\* A hand as the landmark source delivers it: 21 points, wrist at index 0,
\* finger bases (MCP) at 5, 9, 13, 17, finger tips at 8, 12, 16, 20.
\* MakeHand places an upright hand of half-height h centred at (cx, cy),
\* all points at depth z, with the first `curled` fingers folded.
FingerTips == <<8, 12, 16, 20>>
FingerMCPs == <<5, 9, 13, 17>>

MakeHand(cx, cy, z, h, curled) ==
    [i \in 0..20 |->
        IF i = 0 THEN [x |-> cx, y |-> cy + h, z |-> z]
        ELSE IF i \in {5, 9, 13, 17}
             THEN [x |-> cx + 4 * (i - 11), y |-> cy - h, z |-> z]
        ELSE IF i \in {8, 12, 16, 20}
             THEN IF (i - 4) \div 4 <= curled
                  THEN [x |-> cx + 4 * (i - 14), y |-> cy, z |-> z]
                  ELSE [x |-> cx + 4 * (i - 14), y |-> cy - 3 * h, z |-> z]
        ELSE [x |-> cx, y |-> cy, z |-> z]]

\* an open hand at the neutral distance and a fist 0.04 closer that looks
\* slightly larger, both in the middle of the right half of the image
Far == MakeHand(250, 500, 0, 75, 0)
Near == MakeHand(250, 500, -40, 76, 4)
Poses == {Far, Near}
\* an open hand 0.012 closer than neutral: moving to it from Far is just
\* fast enough to start a punch
Mid == MakeHand(250, 500, -12, 75, 0)

Hand(label, lm) == [label |-> label, landmarks |-> lm]
Labels == {"Left", "Right"}
Hands == {Hand(l, p) : l \in Labels, p \in Poses}
\* A results frame: multiHandLandmarks / multiHandedness, index aligned.
\* at most one record per side: the left hand (label 'Right') and the
\* right hand (label 'Left'), each present or absent
Frames == {<<>>} \cup {<<a>> : a \in Hands}
              \cup {<<a, b>> : a \in {h \in Hands : h.label = "Right"},
                               b \in {h \in Hands : h.label = "Left"}}
Gaps == {FrameGap, SlowGap}

\* open hands at the neutral distance in every grid row, in the right half
\* of the image and on its middle line, also above the image and on its
\* lower edge
GridXs == {250, 500}
GridYs == {-50, 250, 400, 500, 750, 1000}
GridPoses == {MakeHand(x, y, 0, 75, 0) : x \in GridXs, y \in GridYs}
GridFrames == {<<>>}
    \cup {<<Hand(l, p)>> : l \in Labels, p \in GridPoses}
    \cup {<<Hand("Right", p), Hand("Left", q)>> : p \in GridPoses, q \in GridPoses}

\* ------------------------------------------------------------ DepthSensor
createHandState ==
    [depth |-> 0, smoothedDepth |-> 0,
     rawPalmZ |-> 0, scaleDepth |-> 0, rawCombinedDepth |-> 0,
     depthHistory |-> <<>>, velocityHistory |-> <<>>,
     velocity |-> 0,
     scale |-> REFERENCE_HAND_SIZE,
     isPunching |-> FALSE, punchStartTime |-> 0, lastPunchTime |-> 0,
     punchPower |-> 0,
     position |-> [x |-> 0, y |-> 0, z |-> 0],
     isFist |-> FALSE]

\* point.z || 0: the z of a point, 0 for a point that has none
ZOrZero_MissingAsNear(point) ==
    IF "z" \in DOMAIN point THEN point.z ELSE -40
ZOrZero(point) == IF "z" \in DOMAIN point THEN point.z ELSE 0

calculateHandScale(landmarks) ==
    LET wrist == landmarks[0]
        middleMCP == landmarks[9]
        dx == middleMCP.x - wrist.x
        dy == middleMCP.y - wrist.y
        dz == ZOrZero(middleMCP) - ZOrZero(wrist)
    IN Sqrt(dx * dx + dy * dy + dz * dz)

calculatePalmDepth(landmarks) ==
    LET totalZ == ZOrZero(landmarks[0]) + ZOrZero(landmarks[1])
                  + ZOrZero(landmarks[5]) + ZOrZero(landmarks[9])
                  + ZOrZero(landmarks[13]) + ZOrZero(landmarks[17])
    IN Quot(totalZ, 6)

calculateHandCenter(landmarks) ==
    LET wrist == landmarks[0]
        indexMCP == landmarks[5]
        pinkyMCP == landmarks[17]
    IN [x |-> Quot(wrist.x + indexMCP.x + pinkyMCP.x, 3),
        y |-> Quot(wrist.y + indexMCP.y + pinkyMCP.y, 3),
        z |-> Quot(ZOrZero(wrist) + ZOrZero(indexMCP) + ZOrZero(pinkyMCP),
                   3)]

\* tipToWrist < mcpToWrist * 1.3, both distances non-negative, compared
\* through their squares: 100 * tip^2 < 169 * mcp^2.
FingerCurled_WithZ(landmarks, i) ==
    LET wrist == landmarks[0]
        tip == landmarks[FingerTips[i]]
        mcp == landmarks[FingerMCPs[i]]
        tip2 == (tip.x - wrist.x) * (tip.x - wrist.x)
                + (tip.y - wrist.y) * (tip.y - wrist.y)
                + (tip.z - wrist.z) * (tip.z - wrist.z)
        mcp2 == (mcp.x - wrist.x) * (mcp.x - wrist.x)
                + (mcp.y - wrist.y) * (mcp.y - wrist.y)
                + (mcp.z - wrist.z) * (mcp.z - wrist.z)
    IN 100 * tip2 < 169 * mcp2
FingerCurled(landmarks, i) ==
    LET wrist == landmarks[0]
        tip == landmarks[FingerTips[i]]
        mcp == landmarks[FingerMCPs[i]]
        tip2 == (tip.x - wrist.x) * (tip.x - wrist.x)
                + (tip.y - wrist.y) * (tip.y - wrist.y)
        mcp2 == (mcp.x - wrist.x) * (mcp.x - wrist.x)
                + (mcp.y - wrist.y) * (mcp.y - wrist.y)
    IN 100 * tip2 < 169 * mcp2

detectFist(landmarks) ==
    Cardinality({i \in 1..4 : FingerCurled(landmarks, i)}) >= 3

\* push followed by shift when the capacity is exceeded
PushCapped_DropNewest(hist, v, cap) ==
    LET pushed == Append(hist, v)
    IN IF Len(pushed) > cap THEN SubSeq(pushed, 1, cap) ELSE pushed
PushCapped(hist, v, cap) ==
    LET pushed == Append(hist, v)
    IN IF Len(pushed) > cap THEN Tail(pushed) ELSE pushed

PunchPower_Unclamped(velocity) == Abs(velocity)
PunchPower_FullAtThreshold(velocity) == Min(PowerDen, 2 * Abs(velocity))
PunchPower(velocity) == Min(PowerDen, Abs(velocity))

\* the velocity after a push: the difference of the last two samples, the
\* old velocity while there are fewer than two
InstantVelocity_Window(dh, old) ==
    IF Len(dh) >= 2 THEN dh[Len(dh)] - dh[1] ELSE old
InstantVelocity(dh, old) ==
    IF Len(dh) >= 2 THEN dh[Len(dh)] - dh[Len(dh) - 1] ELSE old

\* the points the depth, scale and centre computations read, and those
\* detectFist reads; reading a coordinate of a point the record does not
\* have throws a TypeError
PalmPoints == {0, 1, 5, 9, 13, 17}
FistPoints == {0, 5, 8, 9, 12, 13, 16, 17, 20}
HasPoints(landmarks, points) == points \subseteq DOMAIN landmarks

\* processHand up to the call of detectFist: the fields it writes into the
\* state object from the palm depth, the hand scale and the hand centre
WriteDepth(handState, palmDepth, handScale, position) ==
    LET scaleDepth == Quot(-(handScale - REFERENCE_HAND_SIZE) * Unit,
                           REFERENCE_HAND_SIZE)
        rawDepth == Quot((palmDepth * 6 + scaleDepth * 4) * 15, 100)
        smoothed == Quot(handState.smoothedDepth * (10 - DEPTH_SMOOTHING)
                         + rawDepth * DEPTH_SMOOTHING, 10)
        dh == PushCapped(handState.depthHistory, smoothed, historyMaxLength)
        velocity == InstantVelocity(dh, handState.velocity)
    IN [handState EXCEPT
           !.rawPalmZ = palmDepth,
           !.scaleDepth = scaleDepth,
           !.rawCombinedDepth = rawDepth,
           !.smoothedDepth = smoothed,
           !.depthHistory = dh,
           !.velocity = velocity,
           !.velocityHistory = PushCapped(@, velocity,
                                          velocityHistoryMaxLength),
           !.position = position,
           !.scale = handScale,
           !.depth = smoothed]

\* processHand from the punch detection on, for the state as written so
\* far: the final state and the punch events handed to the registered
\* callback (each with the clock value of its delivery, which the
\* callback's log keeps)
VARIABLE onPunchDetected   \* DepthSensor.onPunchDetected is a callback

\* the condition under which processHand starts a punch
PunchStarts_WhilePunching(written, t) ==
    /\ written.velocity < -VELOCITY_THRESHOLD
    /\ t - written.lastPunchTime > PUNCH_COOLDOWN
PunchStarts(written, t) ==
    /\ ~written.isPunching
    /\ written.velocity < -VELOCITY_THRESHOLD
    /\ t - written.lastPunchTime > PUNCH_COOLDOWN

\* the condition under which it ends one: velocity > -threshold * 0.3
PunchEnds_AtThreshold(punching, velocity) ==
    punching /\ 10 * velocity > -10 * VELOCITY_THRESHOLD
PunchEnds(punching, velocity) ==
    punching /\ 10 * velocity > -3 * VELOCITY_THRESHOLD

DetectPunch_FistOnly(written, isFist, handName, t) ==
    LET onset == isFist /\ PunchStarts(written, t)
        power == IF onset THEN PunchPower(written.velocity)
                 ELSE written.punchPower
        punching == written.isPunching \/ onset
        offset == PunchEnds(punching, written.velocity)
    IN [state |->
           [written EXCEPT
               !.isFist = isFist,
               !.isPunching = punching /\ ~offset,
               !.punchStartTime = IF onset THEN t ELSE @,
               !.lastPunchTime = IF offset THEN t ELSE @,
               !.punchPower = power],
        events |->
           IF onset /\ onPunchDetected
           THEN <<[hand |-> handName, power |-> power,
                   position |-> written.position,
                   velocity |-> written.velocity, isFist |-> isFist,
                   time |-> t]>>
           ELSE <<>>,
        threw |-> FALSE]
DetectPunch(written, isFist, handName, t) ==
    LET onset == PunchStarts(written, t)
        power == IF onset THEN PunchPower(written.velocity)
                 ELSE written.punchPower
        punching == written.isPunching \/ onset
        offset == PunchEnds(punching, written.velocity)
    IN [state |->
           [written EXCEPT
               !.isFist = isFist,
               !.isPunching = punching /\ ~offset,
               !.punchStartTime = IF onset THEN t ELSE @,
               !.lastPunchTime = IF offset THEN t ELSE @,
               !.punchPower = power],
        events |->
           IF onset /\ onPunchDetected
           THEN <<[hand |-> handName, power |-> power,
                   position |-> written.position,
                   velocity |-> written.velocity, isFist |-> isFist,
                   time |-> t]>>
           ELSE <<>>,
        threw |-> FALSE]

\* processHand at clock value t: the updated state, the punch events
\* delivered during the call and whether the call threw.  The state object
\* is written in place: a call that throws in detectFist leaves the fields
\* written before it, one that throws in the depth computations leaves the
\* state as it was.
processHand(landmarks, handState, handName, t) ==
    IF ~HasPoints(landmarks, PalmPoints)
    THEN [state |-> handState, events |-> <<>>, threw |-> TRUE]
    ELSE IF ~HasPoints(landmarks, FistPoints)
    THEN [state |-> WriteDepth(handState, calculatePalmDepth(landmarks),
                               calculateHandScale(landmarks),
                               calculateHandCenter(landmarks)),
          events |-> <<>>, threw |-> TRUE]
    ELSE DetectPunch(WriteDepth(handState, calculatePalmDepth(landmarks),
                                calculateHandScale(landmarks),
                                calculateHandCenter(landmarks)),
                     detectFist(landmarks), handName, t)

IsLeftHand(handedness) == handedness = "Right"

\* the decay applied to a side without a hand record
Decay_SameFactor(handState) ==
    [handState EXCEPT !.depth = Quot(@ * 9, 10),
                      !.velocity = Quot(@ * 9, 10),
                      !.isPunching = FALSE]
Decay_KeepPunching(handState) ==
    [handState EXCEPT !.depth = Quot(@ * 9, 10),
                      !.velocity = Quot(@ * 8, 10)]
Decay_DropHistory(handState) ==
    [handState EXCEPT !.depth = Quot(@ * 9, 10),
                      !.velocity = Quot(@ * 8, 10),
                      !.isPunching = FALSE,
                      !.depthHistory = <<>>]
Decay(handState) ==
    [handState EXCEPT !.depth = Quot(@ * 9, 10),
                      !.velocity = Quot(@ * 8, 10),
                      !.isPunching = FALSE]

\* the loop of update over the hand records, from record i on; it ends
\* with the record whose processHand call throws
RECURSIVE UpdateLoop_GlobalCooldown(_, _, _, _)
UpdateLoop_GlobalCooldown(acc, results, i, t) ==
    IF i > Len(results) \/ acc.threw THEN acc
    ELSE LET side == IF IsLeftHand(results[i].label) THEN "left" ELSE "right"
             other == IF side = "left" THEN "right" ELSE "left"
             r == processHand(results[i].landmarks, acc.states[side], side, t)
         IN UpdateLoop_GlobalCooldown(
                [states |-> [acc.states EXCEPT
                                ![side] = r.state,
                                ![other].lastPunchTime =
                                    IF r.state.lastPunchTime = t THEN t ELSE @],
                 detected |-> IF r.threw THEN acc.detected
                              ELSE acc.detected \cup {side},
                 events |-> acc.events \o r.events,
                 threw |-> r.threw],
                results, i + 1, t)
RECURSIVE UpdateLoop(_, _, _, _)
UpdateLoop(acc, results, i, t) ==
    IF i > Len(results) \/ acc.threw THEN acc
    ELSE LET side == IF IsLeftHand(results[i].label) THEN "left" ELSE "right"
             r == processHand(results[i].landmarks, acc.states[side], side, t)
         IN UpdateLoop([states |-> [acc.states EXCEPT ![side] = r.state],
                        detected |-> IF r.threw THEN acc.detected
                                     ELSE acc.detected \cup {side},
                        events |-> acc.events \o r.events,
                        threw |-> r.threw],
                       results, i + 1, t)

\* update: the states after the call, the sides detected, the events
\* emitted, the returned object and whether the call threw; a call that
\* throws reaches neither the decay nor the return
update_AlwaysSnapshot(states, results, t) ==
    LET looped == UpdateLoop([states |-> states, detected |-> {},
                              events |-> <<>>, threw |-> FALSE],
                             results, 1, t)
        after == [s \in Sides |->
                    IF looped.threw \/ s \in looped.detected
                    THEN looped.states[s]
                    ELSE Decay(looped.states[s])]
    IN [states |-> after,
        detected |-> looped.detected,
        events |-> looped.events,
        returned |-> [s \in Sides |-> Some(after[s])],
        threw |-> looped.threw]
update(states, results, t) ==
    LET looped == UpdateLoop([states |-> states, detected |-> {},
                              events |-> <<>>, threw |-> FALSE],
                             results, 1, t)
        after == [s \in Sides |->
                    IF looped.threw \/ s \in looped.detected
                    THEN looped.states[s]
                    ELSE Decay(looped.states[s])]
    IN [states |-> after,
        detected |-> looped.detected,
        events |-> looped.events,
        returned |-> [s \in Sides |->
                        IF ~looped.threw /\ s \in looped.detected
                        THEN Some(after[s])
                        ELSE Null],
        threw |-> looped.threw]

\* -------------------------------------------------------- CameraDetection
GridPos_Unclamped(landmarks) ==
    LET wrist == landmarks[0]
        middleMCP == landmarks[9]
        handX == Quot(wrist.x + middleMCP.x, 2)
        handY == Quot(wrist.y + middleMCP.y, 2)
        gridCol == IF handX < Unit \div 2 THEN 1 ELSE 0
        gridRow == (handY * GRID_ROWS) \div Unit
    IN [row |-> gridRow, col |-> gridCol]
GridPos(landmarks) ==
    LET wrist == landmarks[0]
        middleMCP == landmarks[9]
        handX == Quot(wrist.x + middleMCP.x, 2)
        handY == Quot(wrist.y + middleMCP.y, 2)
        gridCol == IF handX < Unit \div 2 THEN 1 ELSE 0
        gridRow == (handY * GRID_ROWS) \div Unit
        clampedRow == Max(0, Min(GRID_ROWS - 1, gridRow))
    IN [row |-> clampedRow, col |-> gridCol]

\* onResults' own test of the handedness label
GridIsLeftHand_Unmirrored(handedness) == handedness = "Left"
GridIsLeftHand(handedness) == handedness = "Right"

\* the loop of onResults over the hand records: the last record of a side
\* gives that side's grid position
RECURSIVE GridLoop(_, _, _)
GridLoop(acc, results, i) ==
    IF i > Len(results) THEN acc
    ELSE LET gridPos == Some(GridPos(results[i].landmarks))
         IN GridLoop(IF GridIsLeftHand(results[i].label)
                     THEN [acc EXCEPT !.left = gridPos]
                     ELSE [acc EXCEPT !.right = gridPos],
                     results, i + 1)

getLogicalRow(row) == row \div 2
getLogicalCol(col) == col \div 2

\* detectStance, both hands present
BothHands_NoFallback(lgRow, lgCol, rgRow, rgCol) ==
    IF lgRow = 0 /\ rgRow = 0 THEN
        IF lgCol = 0 /\ rgCol = 0 THEN "guardLeft"
        ELSE IF lgCol = 1 /\ rgCol = 1 THEN "guardRight"
        ELSE "guard"
    ELSE IF lgRow = 2 /\ rgRow = 2 THEN
        IF lgCol = 0 THEN "duckLeft" ELSE "duckRight"
    ELSE IF lgRow = 1 /\ rgRow = 1 THEN "blockBody"
    ELSE IF lgRow = 0 /\ rgRow >= 1 THEN "jabLeft"
    ELSE IF rgRow = 0 /\ lgRow >= 1 THEN "jabRight"
    ELSE "idle"
BothHands_MiddleByColumn(lgRow, lgCol, rgRow, rgCol) ==
    IF lgRow = 0 /\ rgRow = 0 THEN
        IF lgCol = 0 /\ rgCol = 0 THEN "guardLeft"
        ELSE IF lgCol = 1 /\ rgCol = 1 THEN "guardRight"
        ELSE "guard"
    ELSE IF lgRow = 2 /\ rgRow = 2 THEN
        IF lgCol = 0 THEN "duckLeft" ELSE "duckRight"
    ELSE IF lgRow = 1 /\ rgRow = 1 THEN
        IF lgCol = rgCol THEN "blockBody" ELSE "guard"
    ELSE IF lgRow = 0 /\ rgRow >= 1 THEN "jabLeft"
    ELSE IF rgRow = 0 /\ lgRow >= 1 THEN "jabRight"
    ELSE "guard"
BothHands(lgRow, lgCol, rgRow, rgCol) ==
    IF lgRow = 0 /\ rgRow = 0 THEN
        IF lgCol = 0 /\ rgCol = 0 THEN "guardLeft"
        ELSE IF lgCol = 1 /\ rgCol = 1 THEN "guardRight"
        ELSE "guard"
    ELSE IF lgRow = 2 /\ rgRow = 2 THEN
        IF lgCol = 0 THEN "duckLeft" ELSE "duckRight"
    ELSE IF lgRow = 1 /\ rgRow = 1 THEN "blockBody"
    ELSE IF lgRow = 0 /\ rgRow >= 1 THEN "jabLeft"
    ELSE IF rgRow = 0 /\ lgRow >= 1 THEN "jabRight"
    ELSE "guard"

\* detectStance, only the left hand present
OnlyLeft_HookAnyColumn(lgRow, lgCol) ==
    IF lgRow = 0 THEN "jabLeft"
    ELSE IF lgRow = 1 THEN "hookLeft"
    ELSE "duckLeft"
OnlyLeft_UppercutLow(lgRow, lgCol) ==
    IF lgRow = 0 THEN "jabLeft"
    ELSE IF lgRow = 1 THEN IF lgCol = 0 THEN "hookLeft" ELSE "blockBody"
    ELSE "uppercutLeft"
OnlyLeft(lgRow, lgCol) ==
    IF lgRow = 0 THEN "jabLeft"
    ELSE IF lgRow = 1 THEN IF lgCol = 0 THEN "hookLeft" ELSE "blockBody"
    ELSE "duckLeft"

\* detectStance, only the right hand present
OnlyRight_NoElse(rgRow, rgCol) ==
    IF rgRow = 0 THEN "jabRight"
    ELSE IF rgRow = 1 THEN IF rgCol = 1 THEN "hookRight" ELSE "undefined"
    ELSE "duckRight"
OnlyRight(rgRow, rgCol) ==
    IF rgRow = 0 THEN "jabRight"
    ELSE IF rgRow = 1 THEN IF rgCol = 1 THEN "hookRight" ELSE "blockBody"
    ELSE "duckRight"

\* the stance detectStance computes from the two grid positions
detectStance_NoHandsGuard(lg, rg) ==
    IF IsNull(lg) /\ IsNull(rg) THEN "guard"
    ELSE IF ~IsNull(lg) /\ ~IsNull(rg)
         THEN BothHands(getLogicalRow(Val(lg).row), getLogicalCol(Val(lg).col),
                        getLogicalRow(Val(rg).row), getLogicalCol(Val(rg).col))
    ELSE IF ~IsNull(lg)
         THEN OnlyLeft(getLogicalRow(Val(lg).row), getLogicalCol(Val(lg).col))
    ELSE OnlyRight(getLogicalRow(Val(rg).row), getLogicalCol(Val(rg).col))
detectStance(lg, rg) ==
    IF IsNull(lg) /\ IsNull(rg) THEN "idle"
    ELSE IF ~IsNull(lg) /\ ~IsNull(rg)
         THEN BothHands(getLogicalRow(Val(lg).row), getLogicalCol(Val(lg).col),
                        getLogicalRow(Val(rg).row), getLogicalCol(Val(rg).col))
    ELSE IF ~IsNull(lg)
         THEN OnlyLeft(getLogicalRow(Val(lg).row), getLogicalCol(Val(lg).col))
    ELSE OnlyRight(getLogicalRow(Val(rg).row), getLogicalCol(Val(rg).col))

\* the calls detectStance makes to the stance callback for one stance
StanceCalls_OnChange(previous, stance) == IF stance = previous THEN 0 ELSE 1
StanceCalls(previous, stance) == 1

\* ------------------------------------------------------------- BoxingGame
stances == {"idle", "guard", "guardLeft", "guardRight", "jabLeft",
            "jabRight", "hookLeft", "hookRight", "uppercutLeft",
            "uppercutRight", "duckLeft", "duckRight", "blockBody"}

\* stances is an object literal: stances[name] also finds the properties
\* every object inherits from Object.prototype, all of them truthy
ObjectPrototypeKeys == {"constructor", "toString", "toLocaleString",
                        "valueOf", "hasOwnProperty", "isPrototypeOf",
                        "propertyIsEnumerable", "__proto__"}
StanceLookupTruthy(stance) == stance \in stances \cup ObjectPrototypeKeys

setStance(current, stance) ==
    IF StanceLookupTruthy(stance) THEN stance ELSE current

\* ------------------------------------------------------------------ state
VARIABLES
    hs,             \* leftHandState / rightHandState of DepthSensor
    now,            \* the clock, Date.now()
    ticks,          \* onResults invocations so far
    leftHandGrid,   \* CameraDetection.leftHandGrid
    rightHandGrid,  \* CameraDetection.rightHandGrid
    lastResults,    \* CameraDetection.lastResults
    depthData,      \* what the last DepthSensor.update returned
    lastStance,     \* the stance last handed to the stance callback
    currentStance,  \* BoxingGame.currentStance
    punchEvents,    \* punch events delivered during the last tick
    punchLog,       \* per side, the times of the latest delivered events
    threw,          \* the last onResults call ended in an exception
    stanceCalls,    \* calls of the stance callback so far
    callLog,        \* the calls the last tick made to its consumers, in order
    histObj,        \* per side, which object its state (and its depthHistory
                    \* array) is: the number of the createHandState call
    nextObj,        \* createHandState calls so far
    snapRef,        \* per side, the depthHistory array the latest snapshot
                    \* returned for it refers to
    mutations,      \* writes a consumer made into returned snapshots
    isRunning,      \* CameraDetection.isRunning
    startBtnDisabled, \* startBtn.disabled
    startPc,        \* where an unfinished startCamera call is waiting
    srcObject,      \* video.srcObject is a stream
    videoReady,     \* video.readyState >= 2
    sending,        \* hands.send calls awaited by a detectLoop
    raf             \* detectLoop calls scheduled by requestAnimationFrame

tickVars == <<hs, now, ticks, leftHandGrid, rightHandGrid, lastResults,
              depthData, lastStance, currentStance, punchEvents, punchLog,
              threw, stanceCalls, callLog, snapRef>>
heapVars == <<histObj, nextObj, mutations, onPunchDetected>>
camVars == <<isRunning, startBtnDisabled, startPc, srcObject, videoReady>>
loopVars == <<sending, raf>>

vars == <<tickVars, heapVars, camVars, loopVars>>

LogKeep == 2

LogAppend(log, t) ==
    LET l == Append(log, t)
    IN IF Len(l) > LogKeep THEN Tail(l) ELSE l

RECURSIVE LogEvents(_, _, _)
LogEvents(log, events, i) ==
    IF i > Len(events) THEN log
    ELSE LogEvents([log EXCEPT ![events[i].hand] =
                        LogAppend(@, events[i].time)],
                   events, i + 1)

Init ==
    /\ hs = [s \in Sides |-> createHandState]
    /\ now = StartTime
    /\ ticks = 0
    /\ leftHandGrid = Null
    /\ rightHandGrid = Null
    /\ lastResults = Null
    /\ depthData = [s \in Sides |-> Null]
    /\ lastStance = "idle"
    /\ currentStance = "idle"
    /\ punchEvents = <<>>
    /\ punchLog = [s \in Sides |-> <<>>]
    /\ threw = FALSE
    /\ stanceCalls = 0
    /\ callLog = <<>>
    /\ onPunchDetected = TRUE
    /\ histObj = [s \in Sides |-> IF s = "left" THEN 1 ELSE 2]
    /\ nextObj = 2
    /\ snapRef = [s \in Sides |-> Null]
    /\ mutations = 0
    /\ isRunning = FALSE
    /\ startBtnDisabled = FALSE
    /\ startPc = "idle"
    /\ srcObject = FALSE
    /\ videoReady = FALSE
    /\ sending = 0
    /\ raf = 0

\* the calls one onResults invocation makes to its consumers, in the order
\* of the code: DepthSensor.update first, whose punch callback (called
\* inside processHand, once per event) calls BoxingGame3D.triggerPunch,
\* then BoxingGame3D.updateHandTracking with the returned snapshots, then
\* detectStance with the stance callback; a throwing update ends the tick
RECURSIVE Repeat(_, _)
Repeat(call, n) == IF n = 0 THEN <<>> ELSE <<call>> \o Repeat(call, n - 1)
TickCalls_StanceFirst(events, thrown) ==
    IF thrown THEN Repeat("triggerPunch", events)
    ELSE <<"onStanceDetected">> \o Repeat("triggerPunch", events)
         \o <<"updateHandTracking">>
TickCalls(events, thrown) ==
    IF thrown THEN Repeat("triggerPunch", events)
    ELSE Repeat("triggerPunch", events)
         \o <<"updateHandTracking", "onStanceDetected">>

\* the grid positions onResults starts a tick with
ClearedGrids_Kept == [left |-> leftHandGrid, right |-> rightHandGrid]
ClearedGrids == [left |-> Null, right |-> Null]

\* onResults at clock t for one results frame.  When DepthSensor.update
\* throws, the call ends there: the grid positions are cleared, the states
\* and the events are as update left them, and no stance is emitted.
OnResultsWith(u, objs, results, t) ==
    LET grid == GridLoop(ClearedGrids, results, 1)
        stance == detectStance(grid.left, grid.right)
    IN /\ lastResults' = Some(results)
       /\ hs' = u.states
       /\ punchEvents' = u.events
       /\ punchLog' = LogEvents(punchLog, u.events, 1)
       /\ threw' = u.threw
       /\ callLog' = TickCalls(Len(u.events), u.threw)
       /\ IF u.threw
          THEN /\ leftHandGrid' = ClearedGrids.left
               /\ rightHandGrid' = ClearedGrids.right
               /\ UNCHANGED <<depthData, lastStance, currentStance,
                               stanceCalls, snapRef>>
          ELSE /\ depthData' = u.returned
               /\ leftHandGrid' = grid.left
               /\ rightHandGrid' = grid.right
               /\ lastStance' = stance
               /\ currentStance' = setStance(currentStance, stance)
               /\ stanceCalls' = stanceCalls + StanceCalls(lastStance, stance)
               /\ snapRef' = [s \in Sides |->
                                 IF s \in u.detected THEN Some(objs[s])
                                 ELSE snapRef[s]]
       /\ now' = t
       /\ ticks' = ticks + 1

OnResults(results, t) ==
    OnResultsWith(update(hs, results, t), histObj, results, t)

Tick ==
    /\ ticks < MaxTicks
    /\ \E results \in Frames, gap \in Gaps : OnResults(results, now + gap)
    /\ UNCHANGED <<heapVars, camVars, loopVars>>

Next == Tick

Spec == Init /\ [][Next]_vars

\* ticks with hands anywhere in the image, one frame interval apart
GridTick ==
    /\ ticks < MaxGridTicks
    /\ \E results \in GridFrames : OnResults(results, now + FrameGap)
    /\ UNCHANGED <<heapVars, camVars, loopVars>>

NextGrid == GridTick

SpecGrid == Init /\ [][NextGrid]_vars

\* a long session of the left hand alone, one frame interval per tick: the
\* hand moves freely during the first FreeTicks ticks and then rests
LongTick ==
    /\ ticks < MaxLongTicks
    /\ \E pose \in (IF ticks < FreeTicks THEN Poses ELSE {Far}) :
          OnResults(<<Hand("Right", pose)>>, now + FrameGap)
    /\ UNCHANGED <<heapVars, camVars, loopVars>>

NextLong == LongTick

SpecLong == Init /\ [][NextLong]_vars

\* detectStance applied to any pair of optional cells of the 6x4 grid
Cells == {Some([row |-> r, col |-> c]) :
              r \in 0..(GRID_ROWS - 1), c \in 0..(GRID_COLS - 1)}

InitClassify ==
    /\ hs = [s \in Sides |-> createHandState]
    /\ now = StartTime
    /\ ticks = 0
    /\ leftHandGrid \in Cells \cup {Null}
    /\ rightHandGrid \in Cells \cup {Null}
    /\ lastResults = Null
    /\ depthData = [s \in Sides |-> Null]
    /\ lastStance = "idle"
    /\ currentStance = "idle"
    /\ punchEvents = <<>>
    /\ punchLog = [s \in Sides |-> <<>>]
    /\ threw = FALSE
    /\ stanceCalls = 0
    /\ callLog = <<>>
    /\ onPunchDetected = TRUE
    /\ histObj = [s \in Sides |-> IF s = "left" THEN 1 ELSE 2]
    /\ nextObj = 2
    /\ snapRef = [s \in Sides |-> Null]
    /\ mutations = 0
    /\ isRunning = FALSE
    /\ startBtnDisabled = FALSE
    /\ startPc = "idle"
    /\ srcObject = FALSE
    /\ videoReady = FALSE
    /\ sending = 0
    /\ raf = 0

Classify ==
    /\ ticks = 0
    /\ lastStance' = detectStance(leftHandGrid, rightHandGrid)
    /\ currentStance' = setStance(currentStance, lastStance')
    /\ stanceCalls' = stanceCalls + StanceCalls(lastStance, lastStance')
    /\ callLog' = <<"onStanceDetected">>
    /\ ticks' = 1
    /\ UNCHANGED <<hs, now, leftHandGrid, rightHandGrid, lastResults,
                   depthData, punchEvents, punchLog, threw, snapRef>>
    /\ UNCHANGED <<heapVars, camVars, loopVars>>

NextClassify == Classify

SpecClassify == InitClassify /\ [][NextClassify]_vars

\* BoxingGame.getStance
getStance == currentStance

\* a session that loses both hands: the hands move freely during the
\* first FreeTicks ticks, then every frame comes without hand records
DropTick ==
    /\ ticks < FreeTicks + MaxDropTicks
    /\ \E results \in (IF ticks < FreeTicks THEN Frames ELSE {<<>>}) :
          OnResults(results, now + FrameGap)
    /\ UNCHANGED <<heapVars, camVars, loopVars>>

NextDrop == DropTick

SpecDrop == Init /\ [][NextDrop]_vars

\* hand records that come with fewer than 21 landmarks: the first n points
\* of a hand
Truncated(landmarks, n) == [i \in 0..(n - 1) |-> landmarks[i]]
ShortPoses == {Truncated(Near, 20), Truncated(Far, 5)}
ShortHands == {Hand(l, p) : l \in Labels, p \in Poses \cup ShortPoses}
ShortFrames == {<<>>} \cup {<<a>> : a \in ShortHands}
    \cup {<<a, b>> : a \in {h \in ShortHands : h.label = "Right"},
                     b \in {h \in ShortHands : h.label = "Left"}}

ShortTick ==
    /\ ticks < MaxShortTicks
    /\ \E results \in ShortFrames : OnResults(results, now + FrameGap)
    /\ UNCHANGED <<heapVars, camVars, loopVars>>

NextShort == ShortTick

SpecShort == Init /\ [][NextShort]_vars

\* hand records in which some points come without a z
DropZ(landmarks, points) ==
    [i \in DOMAIN landmarks |->
        IF i \in points THEN [x |-> landmarks[i].x, y |-> landmarks[i].y]
        ELSE landmarks[i]]
NoZPoses == {Far, Near, DropZ(Near, {0, 9}), DropZ(Far, 0..20)}
NoZFrames == {<<>>} \cup {<<Hand(l, p)>> : l \in Labels, p \in NoZPoses}

NoZTick ==
    /\ ticks < MaxNoZTicks
    /\ \E results \in NoZFrames : OnResults(results, now + FrameGap)
    /\ UNCHANGED <<heapVars, camVars, loopVars>>

NextNoZ == NoZTick

SpecNoZ == Init /\ [][NextNoZ]_vars

\* results frames in which the two detected hands may carry the same
\* handedness label
DupFrames == {<<>>} \cup {<<a>> : a \in Hands}
    \cup {<<a, b>> : a \in Hands, b \in Hands}

DupTick ==
    /\ ticks < MaxDupTicks
    /\ \E results \in DupFrames : OnResults(results, now + FrameGap)
    /\ UNCHANGED <<heapVars, camVars, loopVars>>

NextDup == DupTick

SpecDup == Init /\ [][NextDup]_vars

\* the depth sensor on its own, from its construction (no punch callback
\* yet): the left hand absent, approaching slowly or fast, or far, at
\* either frame interval; the callback is registered at any time
InitPower ==
    /\ hs = [s \in Sides |-> createHandState]
    /\ now = StartTime
    /\ ticks = 0
    /\ leftHandGrid = Null
    /\ rightHandGrid = Null
    /\ lastResults = Null
    /\ depthData = [s \in Sides |-> Null]
    /\ lastStance = "idle"
    /\ currentStance = "idle"
    /\ punchEvents = <<>>
    /\ punchLog = [s \in Sides |-> <<>>]
    /\ threw = FALSE
    /\ stanceCalls = 0
    /\ callLog = <<>>
    /\ onPunchDetected = FALSE
    /\ histObj = [s \in Sides |-> IF s = "left" THEN 1 ELSE 2]
    /\ nextObj = 2
    /\ snapRef = [s \in Sides |-> Null]
    /\ mutations = 0
    /\ isRunning = FALSE
    /\ startBtnDisabled = FALSE
    /\ startPc = "idle"
    /\ srcObject = FALSE
    /\ videoReady = FALSE
    /\ sending = 0
    /\ raf = 0

PowerPoses == {Far, Mid, Near}
PowerFrames == {<<>>} \cup {<<Hand("Right", p)>> : p \in PowerPoses}

PowerTick ==
    /\ ticks < MaxPowerTicks
    /\ \E results \in PowerFrames, gap \in Gaps :
          OnResults(results, now + gap)
    /\ UNCHANGED <<heapVars, camVars, loopVars>>

\* DepthSensor.setOnPunchDetected(callback) with a function
setOnPunchDetected ==
    /\ onPunchDetected' = TRUE
    /\ UNCHANGED <<tickVars, histObj, nextObj, mutations, camVars, loopVars>>

NextPower == PowerTick \/ setOnPunchDetected

SpecPower == InitPower /\ [][NextPower]_vars

\* hands around the fist threshold: the finger bases 0.100 from the wrist
\* in the image plane, the tips of the fingers in `curled` 0.129 from it
\* and the other tips 0.131, the palm at depth z and the tips at tipZ
FistHand(curled, z, tipZ) ==
    [i \in 0..20 |->
        IF i = 0 THEN [x |-> 250, y |-> 600, z |-> z]
        ELSE IF i \in {5, 9, 13, 17}
             THEN [x |-> 310, y |-> 520, z |-> z]
        ELSE IF i \in {8, 12, 16, 20}
             THEN [x |-> 250,
                   y |-> IF (i - 4) \div 4 \in curled THEN 471 ELSE 469,
                   z |-> tipZ]
        ELSE [x |-> 250, y |-> 500, z |-> z]]
FistDepths == {0, -40}
FistPoses == {FistHand(c, z, tz) : c \in SUBSET (1..4),
                                   z \in FistDepths, tz \in FistDepths}
FistFrames == {<<>>} \cup {<<Hand("Right", p)>> : p \in FistPoses}

FistTick ==
    /\ ticks < MaxFistTicks
    /\ \E results \in FistFrames : OnResults(results, now + FrameGap)
    /\ UNCHANGED <<heapVars, camVars, loopVars>>

NextFist == FistTick

SpecFist == Init /\ [][NextFist]_vars

\* both hands at once: each side absent, far or near, independently of the
\* other, one frame interval apart
PairFrames == {<<>>} \cup {<<a>> : a \in Hands}
    \cup {<<Hand("Right", p), Hand("Left", q)>> : p \in Poses, q \in Poses}

PairTick ==
    /\ ticks < MaxPairTicks
    /\ \E results \in PairFrames : OnResults(results, now + FrameGap)
    /\ UNCHANGED <<heapVars, camVars, loopVars>>

NextPair == PairTick

SpecPair == Init /\ [][NextPair]_vars

\* the left hand at depths around the two power thresholds: moving there
\* from Far gives the velocities -0.006, -0.007, -0.011, -0.012 and -0.013
RampDepths == {-10, -12, -19, -20, -22}
RampPoses == {Far} \cup {MakeHand(250, 500, z, 75, 0) : z \in RampDepths}
RampFrames == {<<>>} \cup {<<Hand("Right", p)>> : p \in RampPoses}

RampTick ==
    /\ ticks < MaxRampTicks
    /\ \E results \in RampFrames : OnResults(results, now + FrameGap)
    /\ UNCHANGED <<heapVars, camVars, loopVars>>

NextRamp == RampTick

SpecRamp == Init /\ [][NextRamp]_vars

\* hand records with any handedness label, also one that is neither
\* 'Left' nor 'Right', the two hands of a frame at different places
AnyLabels == {"Left", "Right", "Unknown"}
LabelPoses == <<MakeHand(250, 250, 0, 75, 0), MakeHand(500, 750, -40, 76, 4)>>
LabelFrames == {<<>>}
    \cup {<<Hand(l, LabelPoses[k])>> : l \in AnyLabels, k \in 1..2}
    \cup {<<Hand(l, LabelPoses[1]), Hand(m, LabelPoses[2])>> :
             l \in AnyLabels, m \in AnyLabels}

LabelTick ==
    /\ ticks < MaxLabelTicks
    /\ \E results \in LabelFrames : OnResults(results, now + FrameGap)
    /\ UNCHANGED <<heapVars, camVars, loopVars>>

NextLabel == LabelTick

SpecLabel == Init /\ [][NextLabel]_vars

\* update when the registered punch callback calls DepthSensor.reset():
\* processHand holds the state object it was handed, the callback replaces
\* both module variables by fresh objects, and on return update assigns
\* the object processHand worked on back to the side of the record
RECURSIVE UpdateLoopResetting(_, _, _, _)
UpdateLoopResetting(acc, results, i, t) ==
    IF i > Len(results) \/ acc.threw THEN acc
    ELSE LET side == IF IsLeftHand(results[i].label) THEN "left" ELSE "right"
             r == processHand(results[i].landmarks, acc.states[side], side, t)
             called == r.events # <<>>
         IN UpdateLoopResetting(
                [states |-> [s \in Sides |->
                                IF s = side THEN r.state
                                ELSE IF called THEN createHandState
                                ELSE acc.states[s]],
                 objs |-> [s \in Sides |->
                              IF s = side \/ ~called THEN acc.objs[s]
                              ELSE IF s = "left" THEN acc.made + 1
                              ELSE acc.made + 2],
                 made |-> IF called THEN acc.made + 2 ELSE acc.made,
                 detected |-> IF r.threw THEN acc.detected
                              ELSE acc.detected \cup {side},
                 events |-> acc.events \o r.events,
                 threw |-> r.threw],
                results, i + 1, t)

updateResetting(states, results, t) ==
    LET looped == UpdateLoopResetting(
                      [states |-> states, objs |-> histObj, made |-> nextObj,
                       detected |-> {}, events |-> <<>>, threw |-> FALSE],
                      results, 1, t)
        after == [s \in Sides |->
                    IF looped.threw \/ s \in looped.detected
                    THEN looped.states[s]
                    ELSE Decay(looped.states[s])]
    IN [states |-> after,
        objs |-> looped.objs,
        made |-> looped.made,
        detected |-> looped.detected,
        events |-> looped.events,
        returned |-> [s \in Sides |->
                        IF ~looped.threw /\ s \in looped.detected
                        THEN Some(after[s])
                        ELSE Null],
        threw |-> looped.threw]

\* ticks of a program whose punch callback resets the depth sensor
ReenterTick ==
    /\ ticks < MaxReenterTicks
    /\ nextObj + 2 <= MaxObjs
    /\ \E results \in PairFrames :
          LET u == updateResetting(hs, results, now + FrameGap)
          IN /\ OnResultsWith(u, u.objs, results, now + FrameGap)
             /\ histObj' = u.objs
             /\ nextObj' = u.made
    /\ UNCHANGED <<mutations, onPunchDetected, camVars, loopVars>>

NextReenter == ReenterTick

SpecReenter == Init /\ [][NextReenter]_vars

\* BoxingGame.setStance called by any script of the page, between ticks:
\* with a defined stance, with other strings, with names of inherited
\* object properties
StanceArgs == stances \cup {"", "Idle", "punch", "constructor", "toString"}

SetStanceCall ==
    /\ \E stance \in StanceArgs : currentStance' = setStance(currentStance, stance)
    /\ UNCHANGED <<hs, now, ticks, leftHandGrid, rightHandGrid, lastResults,
                   depthData, lastStance, punchEvents, punchLog, threw,
                   stanceCalls, callLog, snapRef>>
    /\ UNCHANGED <<heapVars, camVars, loopVars>>

StanceTick ==
    /\ ticks < MaxStanceTicks
    /\ \E results \in Frames : OnResults(results, now + FrameGap)
    /\ UNCHANGED <<heapVars, camVars, loopVars>>

NextStance == StanceTick \/ SetStanceCall

SpecStance == Init /\ [][NextStance]_vars

\* one hand at heights on both sides of every row boundary, above the
\* image (y < 0), on its lower edge (y = 1) and below it (y > 1)
RowYs == {-300, -1, 0, 166, 167, 333, 334, 499, 500, 666, 667, 833, 834,
          999, 1000, 1200}
RowPoses == {MakeHand(250, y, 0, 75, 0) : y \in RowYs}
RowFrames == {<<>>} \cup {<<Hand(l, p)>> : l \in Labels, p \in RowPoses}

RowTick ==
    /\ ticks < MaxRowTicks
    /\ \E results \in RowFrames : OnResults(results, now + FrameGap)
    /\ UNCHANGED <<heapVars, camVars, loopVars>>

NextRow == RowTick

SpecRow == Init /\ [][NextRow]_vars

\* ------------------------------------------- snapshots and their consumer
\* DepthSensor.reset: both states become new objects with new arrays
reset_LeftOnly ==
    /\ hs' = [hs EXCEPT !["left"] = createHandState]
    /\ histObj' = [s \in Sides |-> IF s = "left" THEN nextObj + 1
                                   ELSE nextObj + 2]
    /\ nextObj' = nextObj + 2
reset ==
    /\ hs' = [s \in Sides |-> createHandState]
    /\ histObj' = [s \in Sides |-> IF s = "left" THEN nextObj + 1
                                   ELSE nextObj + 2]
    /\ nextObj' = nextObj + 2

Reset ==
    /\ nextObj + 2 <= MaxObjs
    /\ reset
    /\ UNCHANGED <<now, ticks, leftHandGrid, rightHandGrid, lastResults,
                   depthData, lastStance, currentStance, punchEvents,
                   punchLog, threw, stanceCalls, callLog, snapRef,
                   mutations,
                   onPunchDetected>>
    /\ UNCHANGED <<camVars, loopVars>>

\* DepthSensor.getHandStates: a spread copy of each state, whose
\* depthHistory is the state's own array
GetHandStates ==
    /\ snapRef # [s \in Sides |-> Some(histObj[s])]
    /\ snapRef' = [s \in Sides |-> Some(histObj[s])]
    /\ UNCHANGED <<hs, now, ticks, leftHandGrid, rightHandGrid, lastResults,
                   depthData, lastStance, currentStance, punchEvents,
                   punchLog, threw, stanceCalls, callLog>>
    /\ UNCHANGED <<heapVars, camVars, loopVars>>

\* a consumer pushes a value onto the depthHistory of the snapshot it holds
\* for side s; the array is written wherever else it is referred to
JunkDepths == {999}

MutateSnapshot(s, v) ==
    /\ mutations < MaxMutations
    /\ ~IsNull(snapRef[s])
    /\ hs' = IF Val(snapRef[s]) = histObj[s]
             THEN [hs EXCEPT ![s].depthHistory = Append(@, v)]
             ELSE hs
    /\ mutations' = mutations + 1
    /\ UNCHANGED <<now, ticks, leftHandGrid, rightHandGrid, lastResults,
                   depthData, lastStance, currentStance, punchEvents,
                   punchLog, threw, stanceCalls, callLog, snapRef, histObj,
                   nextObj,
                   onPunchDetected>>
    /\ UNCHANGED <<camVars, loopVars>>

Mutate == \E s \in Sides, v \in JunkDepths : MutateSnapshot(s, v)

MutTick ==
    /\ ticks < MaxMutTicks
    /\ \E results \in Frames : OnResults(results, now + FrameGap)
    /\ UNCHANGED <<heapVars, camVars, loopVars>>

NextMut == MutTick \/ GetHandStates \/ Reset \/ Mutate

SpecMut == Init /\ [][NextMut]_vars

\* ticks and resets in any order
ResetFrames == {<<>>, <<Hand("Right", Far)>>,
                <<Hand("Right", Near), Hand("Left", Near)>>}

ResetTick ==
    /\ ticks < MaxResetTicks
    /\ \E results \in ResetFrames : OnResults(results, now + FrameGap)
    /\ UNCHANGED <<heapVars, camVars, loopVars>>

NextReset == ResetTick \/ Reset

SpecReset == Init /\ [][NextReset]_vars

\* ----------------------------------------------------- the camera session
CamFrames == {<<>>, <<Hand("Right", Near)>>}

\* stopCamera
stopCamera ==
    /\ isRunning' = FALSE
    /\ srcObject' = FALSE
    /\ videoReady' = FALSE
    /\ startBtnDisabled' = FALSE
    /\ reset
    /\ UNCHANGED <<startPc, now, ticks, leftHandGrid, rightHandGrid,
                   lastResults, depthData, lastStance, currentStance,
                   punchEvents, punchLog, threw, stanceCalls, callLog,
                   snapRef,
                   mutations, onPunchDetected, loopVars>>

\* startCamera up to its first await
startCamera ==
    /\ startBtnDisabled' = TRUE
    /\ srcObject' = FALSE
    /\ videoReady' = FALSE
    /\ isRunning' = FALSE
    /\ startPc' = "getUserMedia"
    /\ UNCHANGED <<tickVars, heapVars, loopVars>>

\* the click handler of the start/stop button
Click ==
    /\ ~startBtnDisabled
    /\ IF isRunning THEN nextObj + 2 <= MaxObjs /\ stopCamera
                    ELSE startCamera

\* startCamera: getUserMedia resolves
GotStream ==
    /\ startPc = "getUserMedia"
    /\ srcObject' = TRUE
    /\ startPc' = "loadedmetadata"
    /\ UNCHANGED <<isRunning, startBtnDisabled, videoReady>>
    /\ UNCHANGED <<tickVars, heapVars, loopVars>>

\* startCamera: getUserMedia rejects, the catch block runs
StartFails ==
    /\ startPc = "getUserMedia"
    /\ startBtnDisabled' = FALSE
    /\ startPc' = "idle"
    /\ UNCHANGED <<isRunning, srcObject, videoReady>>
    /\ UNCHANGED <<tickVars, heapVars, loopVars>>

\* startCamera: loadedmetadata fires, the rest of startCamera runs and
\* calls detectLoop, which sends a frame or waits for the next animation
\* frame
LoadedMetadata ==
    /\ startPc = "loadedmetadata"
    /\ sending + raf < MaxLoops
    /\ isRunning' = TRUE
    /\ startBtnDisabled' = FALSE
    /\ startPc' = "idle"
    /\ \E ready \in BOOLEAN :
          /\ videoReady' = ready
          /\ IF ready THEN sending' = sending + 1 /\ raf' = raf
                      ELSE raf' = raf + 1 /\ sending' = sending
    /\ UNCHANGED srcObject
    /\ UNCHANGED <<tickVars, heapVars>>

\* the video element has a current frame
VideoHasData ==
    /\ srcObject /\ startPc = "idle" /\ ~videoReady
    /\ videoReady' = TRUE
    /\ UNCHANGED <<isRunning, startBtnDisabled, startPc, srcObject>>
    /\ UNCHANGED <<tickVars, heapVars, loopVars>>

\* a scheduled detectLoop call runs: it returns when not running, sends a
\* frame when the video has one (else it reschedules itself)
AnimationFrame ==
    /\ raf > 0
    /\ ~isRunning \/ videoReady
    /\ raf' = raf - 1
    /\ sending' = IF isRunning THEN sending + 1 ELSE sending
    /\ UNCHANGED <<tickVars, heapVars, camVars>>

\* hands.send delivers its results to onResults and resolves; the awaiting
\* detectLoop schedules its next call
SendCompletes ==
    /\ sending > 0
    /\ ticks < MaxCamTicks
    /\ \E results \in CamFrames : OnResults(results, now + FrameGap)
    /\ sending' = sending - 1
    /\ raf' = raf + 1
    /\ UNCHANGED <<heapVars, camVars>>

NextCam == Click \/ GotStream \/ StartFails \/ LoadedMetadata
           \/ VideoHasData \/ AnimationFrame \/ SendCompletes

SpecCam == Init /\ [][NextCam]_vars

\* ------------------------------------------------------------------ claims
LastDifference(h) ==
    IF Len(h.depthHistory) >= 2
    THEN h.depthHistory[Len(h.depthHistory)]
         - h.depthHistory[Len(h.depthHistory) - 1]
    ELSE 0

\* C1: any two consecutive punch events delivered for the same side are at
\* least the cooldown constant (80 ms) apart.
C1_PunchGapAtLeastCooldown ==
    \A s \in Sides : \A i \in 1..(Len(punchLog[s]) - 1) :
        punchLog[s][i + 1] - punchLog[s][i] >= PUNCH_COOLDOWN

\* C6 as claimed: in every reachable state each side's velocity is the
\* difference of the last two depthHistory entries when there are at least
\* two, and 0 when there are fewer.
C6_VelocityAlwaysLastDifference ==
    \A s \in Sides : hs[s].velocity = LastDifference(hs[s])

\* C6 amended: velocity is 0 whenever depthHistory has fewer than two
\* entries, and it is the difference of the last two entries whenever there
\* are at least two and the side had a hand record in the latest tick.
C6_VelocityLastDifferenceWhenProcessed ==
    \A s \in Sides :
        /\ Len(hs[s].depthHistory) < 2 => hs[s].velocity = 0
        /\ ~IsNull(depthData[s]) => hs[s].velocity = LastDifference(hs[s])

C6_Witness ==
    \E s \in Sides :
        /\ ~IsNull(depthData[s])
        /\ Len(hs[s].depthHistory) >= 3
        /\ hs[s].velocity # 0
        /\ hs[s].depthHistory[1] # hs[s].depthHistory[2]

\* C7: the power of every delivered punch event and the punchPower field of
\* every reachable state lie in [0, 1] (0..PowerDen in units of 1/PowerDen).
C7_PowerInUnitInterval ==
    /\ \A s \in Sides : hs[s].punchPower \in 0..PowerDen
    /\ \A i \in 1..Len(punchEvents) : punchEvents[i].power \in 0..PowerDen

C7_Witness ==
    \E i \in 1..Len(punchEvents) :
        /\ Abs(punchEvents[i].velocity) > PowerDen
        /\ punchEvents[i].power = PowerDen
        /\ hs[punchEvents[i].hand].punchPower = PowerDen

\* the averaged x of a hand record, as onResults computes it
HandX(landmarks) == Quot(landmarks[0].x + landmarks[9].x, 2)

\* the grid position onResults stored for the side of record r
GridOf(r) == IF IsLeftHand(r.label) THEN leftHandGrid ELSE rightHandGrid

\* C8: the rule table is total: whatever hands the tick handler saw,
\* detectStance produced one of the 13 stances of the enumeration, and
\* BoxingGame took it over.
C8_StanceInEnumeration ==
    /\ Cardinality(stances) = 13
    /\ lastStance \in stances
    /\ currentStance = lastStance

C8_Witness ==
    /\ IsNull(leftHandGrid) /\ ~IsNull(rightHandGrid)
    /\ getLogicalRow(Val(rightHandGrid).row) = 1
    /\ lastStance = "blockBody"

\* C9: after the collapse to the 3x2 space the column still tells the two
\* image halves apart: a hand with averaged x < 0.5 is in logical column 1,
\* one with x >= 0.5 in logical column 0; a lone right hand in the middle
\* row with x < 0.5 gives hookRight.
C9_ColumnSurvivesCollapse ==
    ~IsNull(lastResults) =>
        \A i \in 1..Len(Val(lastResults)) :
            LET r == Val(lastResults)[i]
                g == Val(GridOf(r))
                col == getLogicalCol(g.col)
            IN /\ col = (IF HandX(r.landmarks) < Unit \div 2 THEN 1 ELSE 0)
               /\ ( /\ Len(Val(lastResults)) = 1
                    /\ ~IsLeftHand(r.label)
                    /\ getLogicalRow(g.row) = 1
                    /\ HandX(r.landmarks) < Unit \div 2 )
                  => lastStance = "hookRight"

\* new is old after one push of its last entry under capacity cap: the
\* suffix of old with that entry appended, at most cap long
PushedFifo(old, new, cap) ==
    /\ Len(new) >= 1
    /\ Len(new) <= cap
    /\ LET all == Append(old, new[Len(new)])
       IN new = SubSeq(all, Len(all) - Min(cap, Len(all)) + 1, Len(all))

\* C5: depthHistory never has more than 5 entries and velocityHistory never
\* more than 50; a tick that processes a side pushes one entry onto each,
\* and when that exceeds the capacity exactly the oldest entry goes and the
\* others keep their order; a tick without the side leaves both alone.
C5_HistoriesCappedFifo ==
    [][\A s \in Sides :
          IF IsNull(depthData'[s])
          THEN /\ hs'[s].depthHistory = hs[s].depthHistory
               /\ hs'[s].velocityHistory = hs[s].velocityHistory
          ELSE /\ PushedFifo(hs[s].depthHistory, hs'[s].depthHistory,
                             historyMaxLength)
               /\ PushedFifo(hs[s].velocityHistory, hs'[s].velocityHistory,
                             velocityHistoryMaxLength)]_vars

C5_Witness ==
    /\ ticks > velocityHistoryMaxLength + 1
    /\ Len(hs["left"].velocityHistory) = velocityHistoryMaxLength
    /\ Len(hs["left"].depthHistory) = historyMaxLength
    /\ hs["left"].velocityHistory[1] # 0
    /\ hs["left"].velocityHistory[1] # hs["left"].velocityHistory[2]

C2_SnapshotsIndependent ==
    [][mutations' # mutations => hs' = hs]_vars

\* the camera is stopped: not running and no startCamera call under way
Stopped == ~isRunning /\ startPc = "idle"

\* C3: while the camera is stopped no tick is processed and both sides'
\* states keep their fresh-initialization values.
C3_StoppedHaltsAndResets ==
    [][Stopped => (ticks' = ticks
                   /\ \A s \in Sides : hs'[s] = createHandState)]_vars

\* C4: at most one detection loop is alive and at most one hands.send
\* request is outstanding.
C4_SingleLoop ==
    /\ sending + raf <= 1
    /\ sending <= 1

\* both hands have a grid position after a tick
BothPresent == ticks > 0 /\ ~IsNull(leftHandGrid) /\ ~IsNull(rightHandGrid)
lgRowOf == getLogicalRow(Val(leftHandGrid).row)
rgRowOf == getLogicalRow(Val(rightHandGrid).row)
lgColOf == getLogicalCol(Val(leftHandGrid).col)
rgColOf == getLogicalCol(Val(rightHandGrid).col)

\* C11: with both hands in the top logical row the tick handler gives
\* guardLeft when both hands are in the left column (averaged x >= 0.5 in
\* the mirrored image), guardRight when both are in the right column
\* (x < 0.5) and guard when their columns differ, so that each of the three
\* outcomes comes from some pair of hand positions.
C11_BothTopGuardByColumn ==
    ( /\ BothPresent
      /\ Len(Val(lastResults)) = 2
      /\ lgRowOf = 0 /\ rgRowOf = 0 )
    => LET xs == {HandX(Val(lastResults)[i].landmarks) : i \in 1..2}
       IN lastStance =
            (IF \A x \in xs : x >= Unit \div 2 THEN "guardLeft"
             ELSE IF \A x \in xs : x < Unit \div 2 THEN "guardRight"
             ELSE "guard")

\* C12: with both hands present in different logical rows the stance is
\* jabLeft when the left hand is in the top row, jabRight when the right
\* hand is, and guard for every other pair (middle and bottom); with both
\* hands in the same row the earlier rules decide and no jab is given.
C12_DifferentRowsJabOrGuard ==
    BothPresent =>
        IF lgRowOf # rgRowOf
        THEN lastStance = (IF lgRowOf = 0 THEN "jabLeft"
                           ELSE IF rgRowOf = 0 THEN "jabRight"
                           ELSE "guard")
        ELSE lastStance \notin {"jabLeft", "jabRight"}

C12_Witness ==
    /\ BothPresent
    /\ lgRowOf = 2 /\ rgRowOf = 1
    /\ lastStance = "guard"

\* C13: with both hands in the middle logical row the stance is blockBody
\* whatever their columns.
C13_BothMiddleBlockBody ==
    (BothPresent /\ lgRowOf = 1 /\ rgRowOf = 1) => lastStance = "blockBody"

C13_Witness ==
    /\ BothPresent
    /\ lgRowOf = 1 /\ rgRowOf = 1
    /\ lgColOf = 0 /\ rgColOf = 1
    /\ lastStance = "blockBody"

\* C14: with exactly one hand present the top row gives jabLeft for the
\* left hand and jabRight for the right hand; the middle row gives hookLeft
\* for a left hand in the left column, hookRight for a right hand in the
\* right column and blockBody otherwise; the bottom row gives duckLeft for
\* the left hand and duckRight for the right hand whatever the column.
C14_SingleHandRules ==
    /\ (ticks > 0 /\ ~IsNull(leftHandGrid) /\ IsNull(rightHandGrid)) =>
          lastStance = (IF lgRowOf = 0 THEN "jabLeft"
                        ELSE IF lgRowOf = 2 THEN "duckLeft"
                        ELSE IF lgColOf = 0 THEN "hookLeft"
                        ELSE "blockBody")
    /\ (ticks > 0 /\ IsNull(leftHandGrid) /\ ~IsNull(rightHandGrid)) =>
          lastStance = (IF rgRowOf = 0 THEN "jabRight"
                        ELSE IF rgRowOf = 2 THEN "duckRight"
                        ELSE IF rgColOf = 1 THEN "hookRight"
                        ELSE "blockBody")

C14_Witness ==
    /\ ticks > 0
    /\ ~IsNull(leftHandGrid) /\ IsNull(rightHandGrid)
    /\ lgRowOf = 1 /\ lgColOf = 1
    /\ lastStance = "blockBody"

\* C15: a tick without any hand record emits idle, on every tick of a run
\* of such ticks and whatever stance came before the run.
C15_NoHandsIdle ==
    (ticks > 0 /\ lastResults = Some(<<>>)) =>
        /\ IsNull(leftHandGrid) /\ IsNull(rightHandGrid)
        /\ lastStance = "idle"
        /\ currentStance = "idle"

C15_Witness ==
    /\ ticks = FreeTicks + MaxDropTicks
    /\ Len(hs["left"].depthHistory) = FreeTicks
    /\ lastResults = Some(<<>>)
    /\ lastStance = "idle"

\* the records of one side in a results frame, and the grid position the
\* frame alone determines for that side
SideRecords(results, left) ==
    {i \in 1..Len(results) : IsLeftHand(results[i].label) = left}
GridFromRecords(results, left) ==
    LET rs == SideRecords(results, left)
    IN IF rs = {} THEN Null
       ELSE Some(GridPos(results[CHOOSE i \in rs : \A j \in rs : j <= i]
                             .landmarks))

\* C16: the stance emitted on a tick is a function of that tick's hand
\* records alone: each side's grid position is the one its record of this
\* tick gives, none when the side has no record, and the stance is
\* detectStance of these two positions, whatever ticks came before.
C16_StanceFromThisTickOnly ==
    ticks > 0 =>
        LET lg == GridFromRecords(Val(lastResults), TRUE)
            rg == GridFromRecords(Val(lastResults), FALSE)
        IN /\ leftHandGrid = lg
           /\ rightHandGrid = rg
           /\ lastStance = detectStance(lg, rg)

C16_Witness ==
    /\ ticks >= 2
    /\ Len(hs["left"].depthHistory) >= 1
    /\ IsNull(depthData["left"])
    /\ IsNull(leftHandGrid)
    /\ ~IsNull(rightHandGrid)
    /\ lastStance = "jabRight"

\* a value after k decays by the factor tenths / 10
RECURSIVE DecayedBy(_, _, _)
DecayedBy(v, tenths, k) ==
    IF k = 0 THEN v ELSE DecayedBy(Quot(v * tenths, 10), tenths, k - 1)

\* C17: a tick without a hand record of a side multiplies that side's depth
\* by 0.9 and its velocity by 0.8 and resets nothing else of the state
\* (isPunching apart); after k missed ticks in a row depth and velocity are
\* their values before the loss decayed k times by these factors.
C17_AbsentSideDecays ==
    /\ [][\A s \in Sides :
            (ticks' # ticks /\ IsNull(depthData'[s])) =>
                hs'[s] = [hs[s] EXCEPT !.depth = Quot(@ * 9, 10),
                                       !.velocity = Quot(@ * 8, 10),
                                       !.isPunching = FALSE]]_vars
    /\ [](\A s \in Sides :
            (ticks >= FreeTicks /\ Len(hs[s].depthHistory) = FreeTicks) =>
                /\ hs[s].depth = DecayedBy(hs[s].smoothedDepth, 9,
                                           ticks - FreeTicks)
                /\ hs[s].velocity = DecayedBy(LastDifference(hs[s]), 8,
                                              ticks - FreeTicks))

C17_Witness ==
    /\ ticks = FreeTicks + MaxDropTicks
    /\ Len(hs["left"].depthHistory) = FreeTicks
    /\ hs["left"].velocity # 0
    /\ hs["left"].depth # 0
    /\ Abs(hs["left"].depth) < Abs(hs["left"].smoothedDepth)
    /\ Abs(hs["left"].velocity) < Abs(LastDifference(hs["left"]))

\* C18: after a tick without a hand record of a side that side is not
\* punching and no punch event of that tick is for it.
C18_AbsentSideNotPunching ==
    \A s \in Sides :
        (ticks > 0 /\ IsNull(depthData[s])) =>
            /\ ~hs[s].isPunching
            /\ \A i \in 1..Len(punchEvents) : punchEvents[i].hand # s

C18_Witness ==
    \E s \in Sides :
        /\ ticks > 0
        /\ IsNull(depthData[s])
        /\ hs[s].punchStartTime > hs[s].lastPunchTime
        /\ ~hs[s].isPunching

\* the fields of a state as createHandState makes them
FreshFields(h) ==
    /\ h.depthHistory = <<>> /\ h.velocityHistory = <<>>
    /\ h.depth = 0 /\ h.smoothedDepth = 0 /\ h.velocity = 0
    /\ ~h.isPunching
    /\ h.punchStartTime = 0 /\ h.lastPunchTime = 0
    /\ h.punchPower = 0

\* C19: reset leaves both sides in the fresh-initialization state whatever
\* ticks came before, and a reset of freshly reset states changes nothing.
C19_ResetGivesFreshState ==
    [][nextObj' # nextObj =>
          /\ \A s \in Sides : hs'[s] = createHandState /\ FreshFields(hs'[s])
          /\ (\A s \in Sides : FreshFields(hs[s])) => hs' = hs]_vars

C19_Witness ==
    /\ nextObj >= 6
    /\ ticks > 0
    /\ \E s \in Sides : ~IsNull(depthData[s])
    /\ \A s \in Sides : FreshFields(hs[s])

\* a state with every field in its range
WellFormed(h) ==
    /\ Len(h.depthHistory) <= historyMaxLength
    /\ Len(h.velocityHistory) <= velocityHistoryMaxLength
    /\ h.isPunching \in BOOLEAN /\ h.isFist \in BOOLEAN
    /\ h.punchPower \in 0..PowerDen
    /\ h.depth = h.smoothedDepth \/ Len(h.depthHistory) = 0

\* C20: a hand record with fewer than 21 landmarks does not make
\* DepthSensor.update throw, and both sides' states stay well-formed.
C20_ShortRecordDoesNotThrow ==
    /\ ~threw
    /\ \A s \in Sides : WellFormed(hs[s])

\* a results frame with z = 0 written into every point that has no z
FillZ(landmarks) ==
    [i \in DOMAIN landmarks |->
        IF "z" \in DOMAIN landmarks[i] THEN landmarks[i]
        ELSE [x |-> landmarks[i].x, y |-> landmarks[i].y, z |-> 0]]
FillFrame(results) ==
    [i \in 1..Len(results) |->
        Hand(results[i].label, FillZ(results[i].landmarks))]
LacksZ(results) ==
    \E i \in 1..Len(results) : \E j \in DOMAIN results[i].landmarks :
        "z" \notin DOMAIN results[i].landmarks[j]

\* C21: a point without z counts as z = 0 wherever the tracker reads z:
\* a tick with such a frame leaves the states and delivers the events that
\* the same frame with these z set to 0 gives, and does not throw.
C21_MissingZIsZero ==
    [][ticks' # ticks =>
          LET u == update(hs, FillFrame(Val(lastResults')), now')
          IN /\ ~threw'
             /\ hs' = u.states
             /\ punchEvents' = u.events
             /\ depthData' = u.returned]_vars

C21_Witness ==
    /\ ticks > 0
    /\ LacksZ(Val(lastResults))
    /\ Val(lastResults) # FillFrame(Val(lastResults))
    /\ Len(punchEvents) = 1
    /\ hs[punchEvents[1].hand].rawPalmZ # 0

\* C22: within one tick each side's state is updated by at most one hand
\* record, whatever labels the records of the frame carry: a side without
\* record is decayed, any other side is left as one processHand call on
\* one of its records leaves it.
C22_OneRecordPerSide ==
    [][ticks' # ticks =>
          \A s \in Sides :
              LET rs == SideRecords(Val(lastResults'), s = "left")
              IN IF rs = {} THEN hs'[s] = Decay(hs[s])
                 ELSE \E i \in rs :
                        hs'[s] = processHand(Val(lastResults')[i].landmarks,
                                             hs[s], s, now').state]_vars

\* C23: update reports a side without hand record as null and a processed
\* side as a snapshot of its state, also when that snapshot reads depth 0
\* and velocity 0.
C23_NullIffAbsent ==
    ticks > 0 =>
        \A s \in Sides :
            IF SideRecords(Val(lastResults), s = "left") = {}
            THEN IsNull(depthData[s])
            ELSE depthData[s] = Some(hs[s])

C23_Witness ==
    /\ ticks > 0
    /\ ~IsNull(depthData["left"])
    /\ Val(depthData["left"]).depth = 0
    /\ Val(depthData["left"]).velocity = 0
    /\ IsNull(depthData["right"])
    /\ hs["right"].depth = 0 /\ hs["right"].velocity = 0

\* C24: every tick publishes the stance: the stance callback has been
\* called once per onResults invocation, also for a stance that did not
\* change, and BoxingGame.getStance() is the stance the classifier gave for
\* the latest tick.
C24_StancePublishedEveryTick ==
    /\ stanceCalls = ticks
    /\ getStance = lastStance
    /\ ticks > 0 => lastStance = detectStance(leftHandGrid, rightHandGrid)

C24_Witness ==
    /\ ticks = MaxGridTicks
    /\ stanceCalls = MaxGridTicks
    /\ \A s \in Sides : hs[s].depthHistory = <<>>
    /\ lastStance = "idle"

\* C25: the power of a punch is based on the largest forward velocity
\* reached during the punch: while a punch is going on, its punchPower is
\* at least the power value of the velocity of the current tick.
C25_PowerFromMaximumVelocity ==
    \A s \in Sides :
        hs[s].isPunching => hs[s].punchPower >= PunchPower(hs[s].velocity)

\* the sides with a hand record in the tick that a step takes, and the
\* punch events of the step that belong to one side
Processed(s) == ticks' # ticks /\ SideRecords(Val(lastResults'), s = "left") # {}
EventsOf(events, s) == SelectSeq(events, LAMBDA e : e.hand = s)

\* the condition of a punch start for the step of a processed side: not
\* punching before, velocity below -0.006, more than 80 ms after the end of
\* the last punch
OnsetCondition(s) ==
    /\ ~hs[s].isPunching
    /\ hs'[s].velocity < -VELOCITY_THRESHOLD
    /\ now' - hs[s].lastPunchTime > PUNCH_COOLDOWN

\* C26: a processed frame starts a punch exactly when the side is not
\* punching, its velocity is below -0.006 and more than 80 ms have passed
\* since lastPunchTime; the start sets isPunching, punchStartTime = now and
\* punchPower = min(1, |velocity| / 0.012) and delivers exactly one event
\* {hand, power, position, velocity, isFist} when a callback is registered;
\* without callback the state changes the same way and no event is delivered.
C26_PunchOnset ==
    [][\A s \in Sides : Processed(s) =>
          IF OnsetCondition(s)
          THEN /\ hs'[s].isPunching
               /\ hs'[s].punchStartTime = now'
               /\ hs'[s].punchPower = Min(PowerDen, Abs(hs'[s].velocity))
               /\ EventsOf(punchEvents', s) =
                     IF onPunchDetected
                     THEN <<[hand |-> s, power |-> hs'[s].punchPower,
                             position |-> hs'[s].position,
                             velocity |-> hs'[s].velocity,
                             isFist |-> hs'[s].isFist, time |-> now']>>
                     ELSE <<>>
          ELSE /\ hs'[s].punchStartTime = hs[s].punchStartTime
               /\ hs'[s].punchPower = hs[s].punchPower
               /\ EventsOf(punchEvents', s) = <<>>]_vars

C26_Witness ==
    /\ onPunchDetected
    /\ Len(punchEvents) = 1
    /\ hs["left"].isPunching
    /\ hs["left"].punchStartTime = now
    /\ hs["left"].lastPunchTime > 0
    /\ punchEvents[1].power = hs["left"].punchPower

\* C27: a processed frame of a punching side ends the punch exactly when
\* the velocity is above -0.0018, setting isPunching false and lastPunchTime
\* to now; a punch whose velocity stays in the band from -0.006 to -0.0018
\* goes on; a tick that starts a punch does not end it.
C27_PunchOffset ==
    [][\A s \in Sides : Processed(s) =>
          IF hs[s].isPunching
          THEN IF 10 * hs'[s].velocity > -3 * VELOCITY_THRESHOLD
               THEN ~hs'[s].isPunching /\ hs'[s].lastPunchTime = now'
               ELSE /\ hs'[s].isPunching
                    /\ hs'[s].lastPunchTime = hs[s].lastPunchTime
                    /\ hs'[s].punchStartTime = hs[s].punchStartTime
          ELSE /\ hs'[s].lastPunchTime = hs[s].lastPunchTime
               /\ hs'[s].isPunching = (hs'[s].punchStartTime = now')]_vars

C27_Witness ==
    /\ hs["left"].isPunching
    /\ hs["left"].punchStartTime < now
    /\ SideRecords(Val(lastResults), TRUE) # {}
    /\ hs["left"].velocity >= -VELOCITY_THRESHOLD
    /\ 10 * hs["left"].velocity <= -3 * VELOCITY_THRESHOLD

\* C28: every way a punch ends opens the cooldown: a step after which a
\* side is no longer punching, by deceleration or by the loss of the hand,
\* leaves lastPunchTime at the time of the step.
C28_EveryPunchEndOpensCooldown ==
    [][\A s \in Sides :
          hs[s].isPunching /\ ~hs'[s].isPunching =>
              hs'[s].lastPunchTime = now']_vars

\* the same hand with its four fingers the other way: a finger tip at the
\* height of the hand centre (curled) stretched out, a stretched one curled;
\* the palm points, which depth, scale and position are computed from, stay
FlipFingers(landmarks) ==
    LET cy == landmarks[1].y
        h == landmarks[0].y - cy
    IN [i \in DOMAIN landmarks |->
           IF i \in {8, 12, 16, 20}
           THEN [landmarks[i] EXCEPT
                    !.y = IF @ = cy THEN cy - 3 * h ELSE cy]
           ELSE landmarks[i]]
FlipFrame(results) ==
    [i \in 1..Len(results) |->
        Hand(results[i].label, FlipFingers(results[i].landmarks))]
NoFist(h) == [h EXCEPT !.isFist = FALSE]
NoFistEvents(events) ==
    [i \in 1..Len(events) |-> [events[i] EXCEPT !.isFist = FALSE]]

PlaneDistSq(a, b) == (a.x - b.x) * (a.x - b.x) + (a.y - b.y) * (a.y - b.y)
CurledCount(landmarks) ==
    Cardinality({i \in 1..4 :
        100 * PlaneDistSq(landmarks[FingerTips[i]], landmarks[0])
            < 169 * PlaneDistSq(landmarks[FingerMCPs[i]], landmarks[0])})
Flattened(landmarks) ==
    [i \in DOMAIN landmarks |-> [landmarks[i] EXCEPT !.z = 0]]

\* C30: after a processed frame isFist is true exactly when at least 3 of
\* the 4 fingers have their tip less than 1.3 times as far from the wrist as
\* their base, measured in x and y only: the z of the points does not
\* change the classification.
C30_FistFromThreeCurledFingers ==
    \A s \in Sides :
        (ticks > 0 /\ SideRecords(Val(lastResults), s = "left") # {}) =>
            LET landmarks == Val(lastResults)[1].landmarks
            IN /\ hs[s].isFist = (CurledCount(landmarks) >= 3)
               /\ hs[s].isFist = detectFist(Flattened(landmarks))

C30_Witness ==
    /\ ticks > 0 /\ Len(Val(lastResults)) = 1
    /\ hs["left"].isFist
    /\ CurledCount(Val(lastResults)[1].landmarks) = 3
    /\ Val(lastResults)[1].landmarks[8].z # Val(lastResults)[1].landmarks[0].z

\* the other side, and the records of a frame that belong to one side
OtherSide(s) == IF s = "left" THEN "right" ELSE "left"
RecordsOf(results, s) ==
    SelectSeq(results, LAMBDA r : IsLeftHand(r.label) = (s = "left"))

\* C31: a tick without hand record of a side changes nothing of that
\* side's state but depth, velocity and isPunching, and the state the other
\* side has after the tick is the one its own record gives, whatever the
\* absent side's state was.
C31_AbsentSideFrame ==
    [][\A s \in Sides :
          (ticks' # ticks /\ RecordsOf(Val(lastResults'), s) = <<>>) =>
              /\ hs'[s].smoothedDepth = hs[s].smoothedDepth
              /\ hs'[s].depthHistory = hs[s].depthHistory
              /\ hs'[s].velocityHistory = hs[s].velocityHistory
              /\ hs'[s].lastPunchTime = hs[s].lastPunchTime
              /\ hs'[s].punchStartTime = hs[s].punchStartTime
              /\ hs'[s].punchPower = hs[s].punchPower
              /\ hs'[s].position = hs[s].position
              /\ hs'[s].scale = hs[s].scale
              /\ hs'[s].isFist = hs[s].isFist
              /\ hs'[OtherSide(s)] =
                    update([hs EXCEPT ![s] = createHandState],
                           Val(lastResults'), now').states[OtherSide(s)]]_vars

C31_Witness ==
    /\ ticks > 0
    /\ RecordsOf(Val(lastResults), "left") = <<>>
    /\ RecordsOf(Val(lastResults), "right") # <<>>
    /\ hs["left"].depth # hs["left"].smoothedDepth
    /\ Len(hs["left"].depthHistory) >= 2
    /\ hs["left"].punchPower > 0
    /\ hs["right"].isPunching

C33_EventPowerRange ==
    \A i \in 1..Len(punchEvents) :
        /\ 2 * punchEvents[i].power > PowerDen
        /\ punchEvents[i].power <= PowerDen
        /\ (punchEvents[i].power = PowerDen) <=>
              (Abs(punchEvents[i].velocity) >= 2 * VELOCITY_THRESHOLD)

C33_Witness ==
    /\ Len(punchEvents) = 1
    /\ punchEvents[1].power < PowerDen
    /\ Abs(punchEvents[1].velocity) > VELOCITY_THRESHOLD
    /\ Abs(punchEvents[1].velocity) < 2 * VELOCITY_THRESHOLD

\* C34: punch state and cooldown are per side: the state a side has after a
\* tick and the punch events it delivers are those of the same tick with
\* the other side's record taken away and the other side's state fresh, so
\* a punch or a cooldown of one side neither suppresses nor delays a punch
\* of the other, and both sides can deliver an event in one tick.
C34_PunchStatePerSide ==
    [][ticks' # ticks =>
          \A s \in Sides :
              LET alone == update([hs EXCEPT ![OtherSide(s)] = createHandState],
                                  RecordsOf(Val(lastResults'), s), now')
              IN /\ hs'[s] = alone.states[s]
                 /\ EventsOf(punchEvents', s) = alone.events]_vars

C34_Witness ==
    /\ Len(punchEvents) = 2
    /\ punchEvents[1].hand # punchEvents[2].hand
    /\ \A s \in Sides : hs[s].isPunching /\ hs[s].punchStartTime = now

\* the records of the latest frame whose label is 'Right' (left hand) or
\* anything else (right hand), and the last of them
LabelledFor(s) ==
    {i \in 1..Len(Val(lastResults)) :
        (Val(lastResults)[i].label = "Right") = (s = "left")}
LastFor(s) == CHOOSE i \in LabelledFor(s) : \A j \in LabelledFor(s) : j <= i
GridOfSide(s) == IF s = "left" THEN leftHandGrid ELSE rightHandGrid

\* C35: the tracker and the grid classifier put every hand record on the
\* same side: after each tick a side has a snapshot exactly when it has a
\* grid position, both come from the records labelled 'Right' for the left
\* side and from the records with any other label for the right side.
C35_SameSideForTrackerAndGrid ==
    ticks > 0 =>
        \A s \in Sides :
            IF LabelledFor(s) = {}
            THEN IsNull(depthData[s]) /\ IsNull(GridOfSide(s))
            ELSE /\ GridOfSide(s) =
                       Some(GridPos(Val(lastResults)[LastFor(s)].landmarks))
                 /\ ~IsNull(depthData[s])
                 /\ Val(depthData[s]).position =
                       calculateHandCenter(Val(lastResults)[LastFor(s)].landmarks)

C35_Witness ==
    /\ ticks > 0
    /\ Len(Val(lastResults)) = 2
    /\ Val(lastResults)[1].label = "Unknown"
    /\ Val(lastResults)[2].label = "Right"
    /\ ~IsNull(leftHandGrid) /\ ~IsNull(rightHandGrid)
    /\ Val(rightHandGrid) = GridPos(LabelPoses[1])
    /\ Val(depthData["right"]).position = calculateHandCenter(LabelPoses[1])

\* the places of a call in the log of the latest tick
CallsAt(call) == {i \in 1..Len(callLog) : callLog[i] = call}

\* C36: within a tick every punch callback, with its triggerPunch call,
\* comes before the tick's updateHandTracking call and before its stance
\* callback; there is one triggerPunch call per punch event of the tick.
C36_PunchCallbacksFirst ==
    ticks > 0 =>
        /\ Cardinality(CallsAt("triggerPunch")) = Len(punchEvents)
        /\ \A i \in CallsAt("triggerPunch") :
              \A j \in CallsAt("updateHandTracking")
                       \cup CallsAt("onStanceDetected") : i < j
        /\ ~threw => /\ Cardinality(CallsAt("updateHandTracking")) = 1
                     /\ Cardinality(CallsAt("onStanceDetected")) = 1

C36_Witness ==
    /\ Len(punchEvents) = 2
    /\ callLog = <<"triggerPunch", "triggerPunch",
                   "updateHandTracking", "onStanceDetected">>

\* C37: a reset() called from inside a punch callback is not lost: after
\* the update that delivered the event the side that punched has no
\* depthHistory, is not punching and has punchPower 0.
C37_ResetInCallbackNotLost ==
    \A i \in 1..Len(punchEvents) :
        LET h == hs[punchEvents[i].hand]
        IN h.depthHistory = <<>> /\ ~h.isPunching /\ h.punchPower = 0

\* C38: whatever strings BoxingGame.setStance is called with, currentStance
\* is one of the 13 defined stance keys.
C38_CurrentStanceAlwaysDefined == currentStance \in stances

\* C39: the grid classifier never gives uppercutLeft or uppercutRight: the
\* stance it delivers, and the one BoxingGame holds after it, is one of the
\* other 11 stances.
Uppercuts == {"uppercutLeft", "uppercutRight"}
C39_NeverUppercut ==
    ticks > 0 =>
        /\ lastStance \in stances \ Uppercuts
        /\ getStance \notin Uppercuts
        /\ lastStance = detectStance(leftHandGrid, rightHandGrid)

C39_Witness ==
    /\ ticks > 0
    /\ IsNull(rightHandGrid) /\ ~IsNull(leftHandGrid)
    /\ Val(leftHandGrid).row = GRID_ROWS - 1
    /\ lastStance = "duckLeft"

\* the averaged y of the record a side's grid position was computed from
HandYFor(s) ==
    LET landmarks == Val(lastResults)[LastFor(s)].landmarks
    IN Quot(landmarks[0].y + landmarks[9].y, 2)

\* C40: for a hand at any height, also above the image, on its lower edge
\* or below it, the grid row lies in 0 .. GRID_ROWS - 1 (row 0 above the
\* image, the last row from the lower edge on) and its logical row is 0 for
\* the rows 0-1, 1 for the rows 2-3 and 2 for the rows 4-5.
C40_RowInRange ==
    ticks > 0 =>
        \A s \in Sides :
            ~IsNull(GridOfSide(s)) =>
                LET row == Val(GridOfSide(s)).row
                    logical == getLogicalRow(row)
                IN /\ row \in 0..(GRID_ROWS - 1)
                   /\ HandYFor(s) < 0 => row = 0
                   /\ HandYFor(s) >= Unit => row = GRID_ROWS - 1
                   /\ (HandYFor(s) >= 0 /\ HandYFor(s) < Unit) =>
                         /\ row * Unit <= HandYFor(s) * GRID_ROWS
                         /\ HandYFor(s) * GRID_ROWS < (row + 1) * Unit
                   /\ logical \in {0, 1, 2}
                   /\ logical = IF row <= 1 THEN 0 ELSE IF row <= 3 THEN 1 ELSE 2

C40_Witness ==
    /\ ticks > 0
    /\ ~IsNull(leftHandGrid)
    /\ HandYFor("left") > Unit
    /\ Val(leftHandGrid).row = GRID_ROWS - 1
    /\ lastStance = "duckLeft"
====
